---- MODULE Spec2Model ----
(***************************************************************************)
(* Model of the LoTTang weekly pipeline:                                   *)
(*   scripts/scrape_and_update_requests.py  (extract, accumulate, match)   *)
(*   scripts/compute_a3_scores.py           (recency-weighted scorer)      *)
(*                                                                         *)
(* A Python str is modelled as a sequence of one-character strings, so     *)
(* that substring tests, str.replace and the regular expressions of the    *)
(* source are computed character by character.  A Hangul syllable is      *)
(* written as its romanised name ("bok" for U+BCF5, "deung" for U+B4F1);   *)
(* every such name is one character of the modelled string.                *)
(***************************************************************************)
EXTENDS Integers, Sequences, FiniteSets, TLC

\* ------------------------------------------------------------------ bounds
MaxNormLen == 4
MaxCells == 3
MaxDay == 14
MaxEvents == 2

\* ------------------------------------------------------- string primitives
SetMin(S) == CHOOSE m \in S : \A k \in S : m <= k

\* characters matched by the regular-expression class \s (and str.strip)
Whitespace == {" ", "\t", "\n"}

Digits == {"0", "1", "2", "3", "4", "5", "6", "7", "8", "9"}

\* s[i..] starts with t
StartsWithAt(s, t, i) ==
    /\ i + Len(t) - 1 <= Len(s)
    /\ \A k \in 1..Len(t) : s[i + k - 1] = t[k]

\* Python `t in s`
Contains(s, t) == \E i \in 1..(Len(s) - Len(t) + 1) : StartsWithAt(s, t, i)

RECURSIVE LStrip(_)
LStrip(s) == IF s # <<>> /\ s[1] \in Whitespace THEN LStrip(Tail(s)) ELSE s

RECURSIVE RStrip(_)
RStrip(s) ==
    IF s # <<>> /\ s[Len(s)] \in Whitespace
    THEN RStrip(SubSeq(s, 1, Len(s) - 1)) ELSE s

\* str.strip()
Strip(s) == RStrip(LStrip(s))

\* re.sub(r"\s+", "", s)
RemoveWhitespace(s) == SelectSeq(s, LAMBDA c : c \notin Whitespace)

\* re.sub(r"\(.*?\)", "", s): leftmost "(" that has a later ")", up to the
\* nearest such ")"; "." does not match a newline.
RECURSIVE RemoveParens(_)
RemoveParens(s) ==
    IF s = <<>> THEN <<>>
    ELSE LET closers == {j \in 2..Len(s) :
                           /\ s[j] = ")"
                           /\ \A k \in 2..(j - 1) : s[k] # "\n"}
         IN IF s[1] = "(" /\ closers # {}
            THEN RemoveParens(SubSeq(s, SetMin(closers) + 1, Len(s)))
            ELSE <<s[1]>> \o RemoveParens(Tail(s))

\* str.replace(tok, ""): leftmost, non-overlapping occurrences, one pass
RECURSIVE Replace(_, _)
Replace(s, tok) ==
    IF s = <<>> THEN <<>>
    ELSE IF StartsWithAt(s, tok, 1)
         THEN Replace(SubSeq(s, Len(tok) + 1, Len(s)), tok)
         ELSE <<s[1]>> \o Replace(Tail(s), tok)

\* the stop tokens of norm, in the order the loop removes them
StopTokens ==
    << <<"bok", "gwon", "bang">>, <<"bok", "gwon">>, <<"ro", "tto">>,
       <<"pyeon", "ui", "jeom">>, <<"C", "U">>, <<"G", "S", "2", "5">>,
       <<"se", "beun", "il", "re", "beun">>, <<"mi", "ni", "seu", "top">> >>

RECURSIVE RemoveTokens(_, _)
RemoveTokens(s, i) ==
    IF i > Len(StopTokens) THEN s
    ELSE RemoveTokens(Replace(s, StopTokens[i]), i + 1)

\* norm(s)
norm(s) ==
    LET s1 == Strip(s)
        s2 == RemoveWhitespace(s1)
        s3 == RemoveParens(s2)
        s4 == RemoveTokens(s3, 1)
    IN  Replace(s4, <<"-">>)

\* ------------------------------------------------- HTML table extractor
\* "dhlottery.co.kr"
SiteDomain ==
    <<"d", "h", "l", "o", "t", "t", "e", "r", "y", ".", "c", "o", ".",
      "k", "r">>

\* the rank markers "1deung" (1st prize) and "2deung" (2nd prize)
Marker1 == <<"1", "deung">>
Marker2 == <<"2", "deung">>

\* ("jadong", "sudong", "banjadong"): automatic, manual, semi-automatic
ChoiceWords == {<<"ja", "dong">>, <<"su", "dong">>, <<"ban", "ja", "dong">>}

\* the alternatives of the address regular expression
AddrWords ==
    {<<"si">>, <<"gun">>, <<"gu">>, <<"ro">>, <<"gil">>, <<"dong">>,
     <<"myeon">>, <<"ri">>, <<"beon", "ji">>, <<"ho">>}

\* sep.join(parts)
RECURSIVE Join(_, _)
Join(parts, sep) ==
    IF parts = <<>> THEN <<>>
    ELSE IF Len(parts) = 1 THEN parts[1]
    ELSE parts[1] \o sep \o Join(Tail(parts), sep)

\* next((c for c in cells if ...), ""), hits being the positions of the
\* cells that pass the test
FirstAt(cells, hits) == IF hits = {} THEN <<>> ELSE cells[SetMin(hits)]

\* max(cells, key=len) if cells else "": the first cell of maximal length
Longest(cells) ==
    IF cells = <<>> THEN <<>>
    ELSE LET i == SetMin({k \in 1..Len(cells) :
                            \A j \in 1..Len(cells) :
                                Len(cells[j]) <= Len(cells[k])})
         IN  cells[i]

\* re.sub(r"\s+", " ", s)
RECURSIVE CollapseWhitespace(_)
CollapseWhitespace(s) ==
    IF s = <<>> THEN <<>>
    ELSE IF s[1] \in Whitespace
         THEN <<" ">> \o CollapseWhitespace(LStrip(s))
         ELSE <<s[1]>> \o CollapseWhitespace(Tail(s))

\* re.fullmatch(r"\d+", s)
IsNumber(s) == s # <<>> /\ \A i \in 1..Len(s) : s[i] \in Digits

_is_choice(s) == \E w \in ChoiceWords : Contains(s, w)

\* the optional tail \s*\d* of the expression matches the empty string
_looks_addr(s) == \E w \in AddrWords : Contains(s, w)

_clean(cell) == Strip(CollapseWhitespace(cell))

\* [x.strip() for x in texts]
StripAll(texts) == [i \in 1..Len(texts) |-> Strip(texts[i])]

NoGuess == [ok |-> FALSE, name |-> <<>>, choice |-> <<>>, addr |-> <<>>]

_guess_columns(tds) ==
    LET cells0 == SelectSeq([i \in 1..Len(tds) |-> _clean(tds[i])],
                            LAMBDA c : c # <<>>)
        cells == IF cells0 # <<>> /\ IsNumber(cells0[1])
                 THEN Tail(cells0) ELSE cells0
        choice == FirstAt(cells, {i \in 1..Len(cells) : _is_choice(cells[i])})
        addr0 == FirstAt(cells, {i \in 1..Len(cells) : _looks_addr(cells[i])})
        leftovers == SelectSeq(cells,
                        LAMBDA c : /\ c # choice
                                   /\ c # addr0
                                   /\ ~Contains(c, SiteDomain))
        name == Longest(leftovers)
        fallback == {i \in 1..Len(cells) :
                        cells[i] # choice /\ _looks_addr(cells[i])}
        addr == IF addr0 = <<>> THEN FirstAt(cells, fallback) ELSE addr0
    IN  IF cells = <<>> THEN NoGuess
        ELSE IF name = <<>> \/ addr = <<>> THEN NoGuess
        ELSE [ok |-> TRUE, name |-> name, choice |-> choice, addr |-> addr]

\* rank_hint of a table from its caption and header texts
RankHint(headTexts) ==
    LET head == Join(headTexts, <<" ">>)
    IN  IF Contains(head, Marker1) THEN 1
        ELSE IF Contains(head, Marker2) THEN 2 ELSE 0

\* the rank the loop body gives a row under a table hint
RowRank(flat, rank_hint) ==
    LET r1 == IF Contains(flat, Marker1) THEN 1 ELSE rank_hint
    IN  IF Contains(flat, Marker2) /\ r1 = 0 THEN 2 ELSE r1

\* one iteration of the tr loop of fetch_table: the rows it appends (none or
\* one); tdTexts are the joined texts of the td elements of the tr
RowOf(tdTexts, rank_hint) ==
    LET tds == StripAll(tdTexts)
        guessed == _guess_columns(tds)
        flat == Join(tds, <<" ">>)
        rank == RowRank(flat, rank_hint)
    IN  IF tds = <<>> THEN <<>>
        ELSE IF ~guessed.ok THEN <<>>
        ELSE IF rank \notin {1, 2} THEN <<>>
        ELSE IF Contains(guessed.name, SiteDomain)
                \/ Contains(guessed.addr, SiteDomain) THEN <<>>
        ELSE << [name |-> guessed.name, choice |-> guessed.choice,
                 addr |-> guessed.addr, rank |-> rank] >>

RECURSIVE RowsOfTable(_, _)
RowsOfTable(trs, rank_hint) ==
    IF trs = <<>> THEN <<>>
    ELSE RowOf(trs[1], rank_hint) \o RowsOfTable(Tail(trs), rank_hint)

\* the rows fetch_table extracts from a document: a sequence of tables
\* [head |-> caption and th texts, trs |-> body rows]
RECURSIVE TableRows(_)
TableRows(doc) ==
    IF doc = <<>> THEN <<>>
    ELSE RowsOfTable(doc[1].trs, RankHint(doc[1].head))
            \o TableRows(Tail(doc))

\* ------------------------------------------------------------------ dates
IsLeap(y) == (y % 4 = 0 /\ y % 100 # 0) \/ y % 400 = 0

DaysInMonth(y, m) ==
    IF m = 2 THEN (IF IsLeap(y) THEN 29 ELSE 28)
    ELSE IF m \in {4, 6, 9, 11} THEN 30 ELSE 31

RECURSIVE DaysBeforeMonth(_, _)
DaysBeforeMonth(y, m) ==
    IF m = 1 THEN 0 ELSE DaysBeforeMonth(y, m - 1) + DaysInMonth(y, m - 1)

\* date(y, m, d).toordinal()
Toordinal(dt) ==
    LET y1 == dt.y - 1
    IN  y1 * 365 + (y1 \div 4) - (y1 \div 100) + (y1 \div 400)
          + DaysBeforeMonth(dt.y, dt.m) + dt.d

\* the years the model's dates fall in
Years == 2024..2026

\* date.fromordinal(n)
Fromordinal(n) ==
    CHOOSE dt \in [y : Years, m : 1..12, d : 1..31] :
        dt.d <= DaysInMonth(dt.y, dt.m) /\ Toordinal(dt) = n

DigitChars == <<"0", "1", "2", "3", "4", "5", "6", "7", "8", "9">>

DigitValue(c) == (CHOOSE i \in 1..10 : DigitChars[i] = c) - 1

\* int(s) of a string of decimal digits
RECURSIVE DigitsValue(_)
DigitsValue(s) ==
    IF s = <<>> THEN 0
    ELSE 10 * DigitsValue(SubSeq(s, 1, Len(s) - 1)) + DigitValue(s[Len(s)])

\* "%0<w>d" % n
RECURSIVE ZeroPad(_, _)
ZeroPad(n, w) ==
    IF w = 0 THEN <<>>
    ELSE ZeroPad(n \div 10, w - 1) \o <<DigitChars[(n % 10) + 1]>>

\* date.isoformat()
Isoformat(dt) ==
    ZeroPad(dt.y, 4) \o <<"-">> \o ZeroPad(dt.m, 2) \o <<"-">>
        \o ZeroPad(dt.d, 2)

NoDate == [ok |-> FALSE, y |-> 0, m |-> 0, d |-> 0]

\* datetime.strptime(s, "%Y-%m-%d").date(); ok = FALSE where it raises
\* ValueError.  %Y takes up to four digits, %m and %d one or two.
Strptime(s) ==
    LET dashes == {i \in 1..Len(s) : s[i] = "-"}
        i1 == SetMin(dashes)
        i2 == SetMin(dashes \ {i1})
        ys == SubSeq(s, 1, i1 - 1)
        ms == SubSeq(s, i1 + 1, i2 - 1)
        ds == SubSeq(s, i2 + 1, Len(s))
    IN  IF Cardinality(dashes) # 2 THEN NoDate
        ELSE IF ~(IsNumber(ys) /\ IsNumber(ms) /\ IsNumber(ds)) THEN NoDate
        ELSE IF Len(ys) # 4 \/ Len(ms) > 2 \/ Len(ds) > 2 THEN NoDate
        ELSE LET y == DigitsValue(ys)
                 m == DigitsValue(ms)
                 d == DigitsValue(ds)
             IN  IF y < 1 \/ m \notin 1..12 THEN NoDate
                 ELSE IF d < 1 \/ d > DaysInMonth(y, m) THEN NoDate
                 ELSE [ok |-> TRUE, y |-> y, m |-> m, d |-> d]

parse_date(s) == Strptime(Strip(s))

\* ------------------------------------------------ ledger file and frame
\* Unicode code points of the characters of the model's strings
CodePoints ==
    { <<" ", 32>>, <<"#", 35>>, <<"(", 40>>, <<")", 41>>, <<"-", 45>>,
      <<".", 46>>, <<"/", 47>>, <<"0", 48>>, <<"1", 49>>, <<"2", 50>>,
      <<"3", 51>>, <<"4", 52>>, <<"5", 53>>, <<"6", 54>>, <<"7", 55>>,
      <<"8", 56>>, <<"9", 57>>, <<"A", 65>>, <<"C", 67>>, <<"N", 78>>,
      <<"S", 83>>, <<"U", 85>>, <<"a", 97>>, <<"n", 110>>, <<"|", 124>>,
      <<"ga", 44032>>, <<"ge", 44172>>, <<"dong", 46041>>,
      <<"deung", 46321>>, <<"seo", 49436>>, <<"si", 49884>>,
      <<"ul", 50872>>, <<"ja", 51088>> }

Ord(c) == (CHOOSE p \in CodePoints : p[1] = c)[2]

\* Python str comparison a < b: lexicographic by code point
RECURSIVE StrLess(_, _)
StrLess(a, b) ==
    IF b = <<>> THEN FALSE
    ELSE IF a = <<>> THEN TRUE
    ELSE IF a[1] # b[1] THEN Ord(a[1]) < Ord(b[1])
    ELSE StrLess(Tail(a), Tail(b))

\* the missing value of a data frame cell (float nan)
NaN == <<"<NaN>">>

\* field texts pandas.read_csv reads as missing (its default na_values)
NaStrings ==
    { <<>>, <<"N", "A">>, <<"N", "/", "A">>, <<"#", "N", "/", "A">>,
      <<"N", "a", "N">>, <<"n", "a", "n">> }

\* pd.read_csv of one text field: text columns keep their text, except the
\* missing-value markers
ReadField(text) == IF text \in NaStrings THEN NaN ELSE text

\* DataFrame.to_csv of one cell: a missing value is written as the empty field
WriteField(v) == IF v = NaN THEN <<>> ELSE v

\* str(v) of a data frame cell
Str(v) == IF v = NaN THEN <<"n", "a", "n">> ELSE v

\* pd.read_csv(stores_csv): integer columns draw and rank, text columns else
read_csv(rows) ==
    [i \in 1..Len(rows) |->
        [draw |-> rows[i].draw,
         draw_date |-> ReadField(rows[i].draw_date),
         rank |-> rows[i].rank,
         name |-> ReadField(rows[i].name),
         choice_type |-> ReadField(rows[i].choice_type),
         address |-> ReadField(rows[i].address)]]

\* df.to_csv(stores_csv, index=False)
to_csv(df) ==
    [i \in 1..Len(df) |->
        [draw |-> df[i].draw,
         draw_date |-> WriteField(df[i].draw_date),
         rank |-> df[i].rank,
         name |-> WriteField(df[i].name),
         choice_type |-> WriteField(df[i].choice_type),
         address |-> WriteField(df[i].address)]]

\* order of two cells of the name column; missing values sort last
NameLess(a, b) ==
    IF a = NaN THEN FALSE ELSE IF b = NaN THEN TRUE ELSE StrLess(a, b)

\* order of two rows under the sort keys ["draw", "rank", "name"]
RowLess(a, b) ==
    \/ a.draw < b.draw
    \/ a.draw = b.draw /\ a.rank < b.rank
    \/ a.draw = b.draw /\ a.rank = b.rank /\ NameLess(a.name, b.name)

\* insert r behind every row that does not sort after it
InsertRow(sorted, r) ==
    LET after == {i \in 1..Len(sorted) : RowLess(r, sorted[i])}
        k == IF after = {} THEN Len(sorted) + 1 ELSE SetMin(after)
    IN  SubSeq(sorted, 1, k - 1) \o <<r>> \o SubSeq(sorted, k, Len(sorted))

\* df.sort_values(["draw", "rank", "name"]): a multi-key sort is stable
RECURSIVE sort_values(_)
sort_values(df) ==
    IF df = <<>> THEN <<>>
    ELSE InsertRow(sort_values(SubSeq(df, 1, Len(df) - 1)), df[Len(df)])

\* set(df["draw"].unique().tolist()) if not df.empty else set()
HaveOf(df) == {df[i].draw : i \in 1..Len(df)}

\* [d for d in range(lo, hi + 1) if d not in have]
RECURSIVE RangeNotIn(_, _, _)
RangeNotIn(lo, hi, have) ==
    IF lo > hi THEN <<>>
    ELSE (IF lo \in have THEN <<>> ELSE <<lo>>)
            \o RangeNotIn(lo + 1, hi, have)

\* est = base_draw + ((today - base_d).days // 7)
EstimatedDraw(base_draw, base_d, today) ==
    base_draw + ((today - Toordinal(base_d)) \div 7)

\* ToFetch with the upper end of the range left out: range(lo, est)
ToFetchExclusive(have, est) ==
    IF have # {} THEN RangeNotIn(SetMin(have \cup {est}), est - 1, have)
    ELSE <<est>>

\* to_fetch
ToFetch(have, est) ==
    IF have # {} THEN RangeNotIn(SetMin(have \cup {est}), est, have)
    ELSE <<est>>

\* ----------------------------------------------- registry index, aliases
\* a dict as a function; m[k] = v
Put(m, k, v) == [x \in (DOMAIN m) \cup {k} |-> IF x = k THEN v ELSE m[x]]

\* m.get(k, "")
Get(m, k) == IF k \in DOMAIN m THEN m[k] ELSE <<>>

EmptyDict == [k \in {} |-> <<>>]

\* norm(name) + "|" + norm(address)
KeyOf(name, address) == norm(name) \o <<"|">> \o norm(address)

\* build_index over the features' properties; an absent property is ""
RECURSIVE build_index(_)
build_index(features) ==
    IF features = <<>> THEN EmptyDict
    ELSE LET p == features[Len(features)]
             idx == build_index(SubSeq(features, 1, Len(features) - 1))
             key == KeyOf(p.name, p.address)
         IN  IF key # <<>> /\ p.store_id # <<>>
             THEN Put(idx, key, p.store_id) ELSE idx

RECURSIVE AliasRows(_)
AliasRows(rows) ==
    IF rows = <<>> THEN EmptyDict
    ELSE LET row == rows[Len(rows)]
             m == AliasRows(SubSeq(rows, 1, Len(rows) - 1))
             key == KeyOf(row.alias_name, row.alias_address)
         IN  IF key # <<>> /\ row.store_id # <<>>
             THEN Put(m, key, row.store_id) ELSE m

\* load_aliases: the file may be absent
load_aliases(file) == IF file.exists THEN AliasRows(file.rows) ELSE EmptyDict

\* Lookup with the two tables consulted in the other order
LookupIndexFirst(alias, idx, key) ==
    IF Get(idx, key) # <<>> THEN Get(idx, key) ELSE Get(alias, key)

\* sid = alias.get(key) or idx.get(key, "")
Lookup(alias, idx, key) ==
    IF Get(alias, key) # <<>> THEN Get(alias, key) ELSE Get(idx, key)

\* the output row of the matcher for one frame row
MatchRow(r, alias, idx) ==
    [store_id |-> Lookup(alias, idx, KeyOf(Str(r.name), Str(r.address))),
     date |-> r.draw_date,
     rank |-> r.rank,
     draw_no |-> r.draw,
     name |-> r.name,
     address |-> r.address]

\* MatchSplit with every row appended to U, matched or not
MatchSplitAll(df, alias, idx, matched) ==
    SelectSeq([i \in 1..Len(df) |-> MatchRow(df[i], alias, idx)],
              LAMBDA row : matched => row.store_id # <<>>)

\* the list W (matched = TRUE) or U (matched = FALSE) of the matcher loop
MatchSplit(df, alias, idx, matched) ==
    SelectSeq([i \in 1..Len(df) |-> MatchRow(df[i], alias, idx)],
              LAMBDA row : (row.store_id # <<>>) = matched)

\* pd.DataFrame(W).to_csv(wins): the text fields of wins.csv
WinsCsv(W) ==
    [i \in 1..Len(W) |->
        [store_id |-> WriteField(W[i].store_id),
         date |-> WriteField(W[i].date),
         rank |-> ZeroPad(W[i].rank, 1),
         draw_no |-> W[i].draw_no,
         name |-> WriteField(W[i].name),
         address |-> WriteField(W[i].address)]]

\* ------------------------------------------------ recency-weighted scorer
\* int(s) succeeds: optional sign, then decimal digits, blanks around
IntOk(s) ==
    LET t == Strip(s)
    IN  IF t # <<>> /\ t[1] \in {"+", "-"} THEN IsNumber(Tail(t))
        ELSE IsNumber(t)

\* int(s) where IntOk(s)
IntOf(s) ==
    LET t == Strip(s)
    IN  IF t[1] = "-" THEN 0 - DigitsValue(Tail(t))
        ELSE IF t[1] = "+" THEN DigitsValue(Tail(t)) ELSE DigitsValue(t)

\* read_events_csv over the data rows of the events file: ok = FALSE where
\* parse_date or int raises; ev maps a store id to its (d, rank) list
RECURSIVE read_events_csv(_)
read_events_csv(rows) ==
    IF rows = <<>> THEN [ok |-> TRUE, ev |-> EmptyDict]
    ELSE LET prev == read_events_csv(SubSeq(rows, 1, Len(rows) - 1))
             row == rows[Len(rows)]
             sid == Strip(row.store_id)
             d == parse_date(row.date)
         IN  IF ~prev.ok THEN prev
             ELSE IF row.store_id # <<>> /\ row.store_id[1] = "#" THEN prev
             ELSE IF sid = <<>> THEN prev
             ELSE IF ~d.ok \/ ~IntOk(row.rank)
                  THEN [ok |-> FALSE, ev |-> prev.ev]
             ELSE [ok |-> TRUE,
                   ev |-> Put(prev.ev, sid,
                              Get(prev.ev, sid)
                                \o <<[d |-> d, rank |-> IntOf(row.rank)]>>)]

\* the accumulators of the event loop of compute_scores for one store; the
\* score is kept as its list of terms base * 0.5 ** (days / 30.4375 / hl),
\* each term as (base, days)
RECURSIVE StoreTotals(_, _)
StoreTotals(evs, today) ==
    IF evs = <<>>
    THEN [score |-> <<>>, win1 |-> 0, win2 |-> 0, last_date |-> NoDate,
          r12_1 |-> 0, r12_2 |-> 0]
    ELSE LET acc == StoreTotals(SubSeq(evs, 1, Len(evs) - 1), today)
             e == evs[Len(evs)]
             days == today - Toordinal(e.d)
             recent == days <= 365
         IN  [score |-> acc.score
                          \o <<[base |-> IF e.rank = 1 THEN 5 ELSE 1,
                                days |-> days]>>,
              win1 |-> acc.win1 + (IF e.rank = 1 THEN 1 ELSE 0),
              win2 |-> acc.win2 + (IF e.rank = 1 THEN 0 ELSE 1),
              last_date |-> IF ~acc.last_date.ok
                               \/ Toordinal(e.d) > Toordinal(acc.last_date)
                            THEN e.d ELSE acc.last_date,
              r12_1 |-> acc.r12_1 + (IF recent /\ e.rank = 1 THEN 1 ELSE 0),
              r12_2 |-> acc.r12_2 + (IF recent /\ e.rank # 1 THEN 1 ELSE 0)]

\* compute_scores: one summary row per feature, in order
compute_scores(features, events, today) ==
    [i \in 1..Len(features) |->
        LET t == StoreTotals(Get(events, features[i].store_id), today)
        IN  [store_id |-> features[i].store_id,
             win1 |-> t.win1, win2 |-> t.win2, a3_score |-> t.score,
             last_win_date |-> IF t.last_date.ok
                               THEN Isoformat(t.last_date) ELSE <<>>,
             recent12m_win1 |-> t.r12_1, recent12m_win2 |-> t.r12_2]]

\* main of compute_a3_scores.py: ok = FALSE where it ends with a traceback
ScorerMain(features, eventRows, today) ==
    LET ev == read_events_csv(eventRows)
    IN  IF ev.ok
        THEN [ok |-> TRUE, summary |-> compute_scores(features, ev.ev, today)]
        ELSE [ok |-> FALSE, summary |-> <<>>]

\* all sequences over A of length at most n
SeqsUpTo(A, n) == UNION {[1..k -> A] : k \in 0..n}

\* ------------------------------------------------------------------- state
VARIABLES normPc, normIn, normOnce, normTwice
VARIABLES exPc, exHead, exTds, exRows
VARIABLES
    clock,        \* ordinal of the current date
    web,          \* the results page the site serves for each draw
    ledgerFile,   \* data/dhlottery_stores.csv
    pc,           \* position of the run of main
    cause,        \* where a run that ended with a traceback failed
    today, est, df, have, to_fetch, fetchIdx, all_rows,
    dateFailed,   \* draws of this run whose date lookup failed
    saved,        \* this run has rewritten the ledger file
    geo, idx, alias, W, U,
    a3,           \* outcome of the scoring stage of this run
    startLedger,  \* the ledger file as this run found it
    rerun         \* this run follows a run that saved, on the same date
VARIABLES scPc, scEvents, scResult

normVars == <<normPc, normIn, normOnce, normTwice>>
exVars == <<exPc, exHead, exTds, exRows>>
envVars == <<clock, web>>
runVars == <<today, est, df, have, to_fetch, fetchIdx, all_rows, dateFailed,
             saved, geo, idx, alias, W, U, a3, startLedger, rerun>>
pipeVars == <<envVars, ledgerFile, pc, cause, runVars>>
scVars == <<scPc, scEvents, scResult>>
vars == <<normVars, exVars, pipeVars, scVars>>

Absent == [exists |-> FALSE, rows |-> <<>>]

NormIdle ==
    normPc = "idle" /\ normIn = <<>> /\ normOnce = <<>> /\ normTwice = <<>>

ExIdle == exPc = "idle" /\ exHead = <<>> /\ exTds = <<>> /\ exRows = <<>>

ScIdle == scPc = "idle" /\ scEvents = <<>> /\ scResult = <<>>

RunLocalsInit ==
    /\ today = 0 /\ est = 0 /\ df = <<>> /\ have = {} /\ to_fetch = <<>>
    /\ fetchIdx = 1 /\ all_rows = <<>> /\ dateFailed = {} /\ saved = FALSE
    /\ geo = Absent /\ idx = EmptyDict /\ alias = EmptyDict
    /\ W = <<>> /\ U = <<>> /\ a3 = "none"
    /\ startLedger = Absent /\ rerun = FALSE

PipeIdle ==
    /\ clock = 0 /\ web = <<>> /\ ledgerFile = Absent
    /\ pc = "idle" /\ cause = "none"
    /\ RunLocalsInit

\* ===================================================== norm applied twice
NormAlphabet == {" ", "(", ")", "-", "C", "U", "ga"}

NormInit ==
    /\ normPc = "start"
    /\ normIn \in SeqsUpTo(NormAlphabet, MaxNormLen)
    /\ normOnce = <<>>
    /\ normTwice = <<>>
    /\ ExIdle /\ PipeIdle /\ ScIdle

NormApply ==
    /\ normPc = "start"
    /\ normOnce' = norm(normIn)
    /\ normPc' = "once"
    /\ UNCHANGED <<normIn, normTwice, exVars, pipeVars, scVars>>

NormReapply ==
    /\ normPc = "once"
    /\ normTwice' = norm(normOnce)
    /\ normPc' = "twice"
    /\ UNCHANGED <<normIn, normOnce, exVars, pipeVars, scVars>>

NormNext == NormApply \/ NormReapply

SpecNorm == NormInit /\ [][NormNext]_vars

\* C8: normalization is idempotent, norm(norm(x)) = norm(x) for every x.
NormIdempotent == normPc = "twice" => normTwice = normOnce

\* ============================================ one tr of a results table
\* cell texts: ordinal "1", a store name, a choice tag, an address, the two
\* rank markers and a link to the site
ExCells ==
    { <<"1">>, <<"ga", "ge">>, <<"ja", "dong">>, <<"seo", "ul", "si">>,
      Marker1, Marker2, SiteDomain }

\* caption/th texts of the table
ExHeads ==
    { <<>>, <<Marker1>>, <<Marker2>>, <<Marker2, Marker1>>,
      << <<"2">>, <<"deung">> >> }

ExInit ==
    /\ exPc = "tr"
    /\ exHead \in ExHeads
    /\ exTds \in SeqsUpTo(ExCells, MaxCells)
    /\ exRows = <<>>
    /\ NormIdle /\ PipeIdle /\ ScIdle

\* the body of the tr loop, for the tr whose td texts are exTds
ExtractRow ==
    /\ exPc = "tr"
    /\ exRows' = exRows \o RowOf(exTds, RankHint(exHead))
    /\ exPc' = "next"
    /\ UNCHANGED <<exHead, exTds, normVars, pipeVars, scVars>>

ExNext == ExtractRow

SpecExtract == ExInit /\ [][ExNext]_vars

ExFlat == Join(StripAll(exTds), <<" ">>)

\* C9: the rank of an emitted row is the table's hint unless the row holds
\* a rank marker, which overrides the hint: a row with the rank-1 marker
\* gets rank 1, a row with the rank-2 marker and no rank-1 marker gets 2.
MarkerOverridesHint ==
    (exPc = "next" /\ exRows # <<>>) =>
        /\ Contains(ExFlat, Marker1) => exRows[1].rank = 1
        /\ (Contains(ExFlat, Marker2) /\ ~Contains(ExFlat, Marker1))
              => exRows[1].rank = 2
        /\ (~Contains(ExFlat, Marker2) /\ ~Contains(ExFlat, Marker1))
              => exRows[1].rank = RankHint(exHead)

\* ================================================== the weekly pipeline
\* --base-draw 1184 --base-date 2025-08-09
BaseDraw == 1184
BaseDate == <<"2", "0", "2", "5", "-", "0", "8", "-", "0", "9">>

ClockStart == Toordinal(Strptime(BaseDate))

Draws == BaseDraw..(BaseDraw + (MaxDay \div 7))

\* results pages: no winners table; a rank-2 table listing one store twice
\* (two winning tickets) before a rank-1 table; a store whose name is "NA"
Pages ==
    [none |-> <<>>,
     winners |->
       << [head |-> << <<"2", "deung">> >>,
           trs |-> << << <<"1">>, <<" ", "C", "U", " ", " ", "ga", "ge">>,
                         <<"seo", "ul", "si">> >>,
                      << <<"2">>, <<"C", "U", " ", "ga", "ge", "\n">>,
                         <<"seo", "ul", "si">> >> >>],
          [head |-> << <<"1", "deung">> >>,
           trs |-> << << <<"1">>, <<"ga", "ge">>, <<"ja", "dong">>,
                         <<"seo", "ul", "si">> >> >>] >>,
     na |->
       << [head |-> << <<"1", "deung">> >>,
           trs |-> << << <<"1">>, <<"N", "A">>,
                         <<"seo", "ul", "si">> >> >>] >>]

PageIds == DOMAIN Pages

\* data/stores_clean.geojson: absent, or one registered store
GeoFiles ==
    { Absent,
      [exists |-> TRUE,
       rows |-> << [name |-> <<"ga", "ge">>,
                    address |-> <<"seo", "ul", "si">>,
                    store_id |-> <<"S", "1">>] >>] }

\* data/store_aliases.csv: absent, or three rows (the last without an id)
AliasFiles ==
    { Absent,
      [exists |-> TRUE,
       rows |-> << [alias_name |-> <<"ga", " ", "ge">>,
                    alias_address |-> <<"seo", "ul", "si">>,
                    store_id |-> <<"S", "9">>],
                   [alias_name |-> <<"ga", "ge">>,
                    alias_address |-> <<"ja", "dong">>,
                    store_id |-> <<"S", "2">>],
                   [alias_name |-> <<"N", "A">>,
                    alias_address |-> <<"seo", "ul", "si">>,
                    store_id |-> <<>>] >>] }

\* the answers of the draw-date service for draw n: an error, a reply
\* without drwNoDate, or the date of the draw
DateResponses(n) ==
    { [ok |-> FALSE, drwNoDate |-> <<>>],
      [ok |-> TRUE, drwNoDate |-> <<>>],
      [ok |-> TRUE,
       drwNoDate |-> Isoformat(Fromordinal(ClockStart + 7 * (n - BaseDraw)))] }

get_draw_date(resp) ==
    IF resp.ok /\ resp.drwNoDate # <<>> THEN resp.drwNoDate ELSE <<>>

\* fetch_table after a successful page request: (rows, draw_date)
fetch_table(doc, resp) ==
    [rows |-> TableRows(doc), draw_date |-> get_draw_date(resp)]

\* the dicts the draw loop of main appends to all_rows for one draw
DrawRows(drw, fetched) ==
    [i \in 1..Len(fetched.rows) |->
        [draw |-> drw,
         draw_date |-> fetched.draw_date,
         rank |-> fetched.rows[i].rank,
         name |-> fetched.rows[i].name,
         choice_type |-> fetched.rows[i].choice,
         address |-> fetched.rows[i].addr]]

PipeInit ==
    /\ clock = ClockStart
    /\ web \in [Draws -> PageIds]
    /\ ledgerFile = Absent
    /\ pc = "idle" /\ cause = "none"
    /\ RunLocalsInit
    /\ NormIdle /\ ExIdle /\ ScIdle

\* main up to the draw loop, started on some date not before the last run
Start ==
    /\ pc \in {"idle", "done", "crashed"}
    /\ \E t \in clock..(ClockStart + MaxDay) :
         LET frame == IF ledgerFile.exists
                      THEN read_csv(ledgerFile.rows) ELSE <<>>
             e == EstimatedDraw(BaseDraw, Strptime(BaseDate), t)
         IN  /\ clock' = t
             /\ today' = t
             /\ est' = e
             /\ df' = frame
             /\ have' = HaveOf(frame)
             /\ to_fetch' = ToFetch(HaveOf(frame), e)
             /\ rerun' = (saved /\ today = t)
    /\ fetchIdx' = 1
    /\ all_rows' = <<>>
    /\ dateFailed' = {}
    /\ saved' = FALSE
    /\ geo' = Absent /\ idx' = EmptyDict /\ alias' = EmptyDict
    /\ W' = <<>> /\ U' = <<>> /\ a3' = "none"
    /\ startLedger' = ledgerFile
    /\ cause' = "none"
    /\ pc' = "fetch"
    /\ UNCHANGED <<web, ledgerFile, normVars, exVars, scVars>>

\* one iteration of the draw loop whose page request succeeds
FetchDraw ==
    /\ pc = "fetch"
    /\ fetchIdx <= Len(to_fetch)
    /\ LET drw == to_fetch[fetchIdx]
       IN  \E resp \in DateResponses(drw) :
             LET fetched == fetch_table(Pages[web[drw]], resp)
             IN  /\ all_rows' = all_rows \o DrawRows(drw, fetched)
                 /\ dateFailed' = IF fetched.draw_date = <<>>
                                  THEN dateFailed \cup {drw} ELSE dateFailed
    /\ fetchIdx' = fetchIdx + 1
    /\ UNCHANGED <<envVars, ledgerFile, pc, cause, today, est, df, have,
                   to_fetch, saved, geo, idx, alias, W, U, a3, startLedger,
                   rerun, normVars, exVars, scVars>>

\* FetchFail with the rows gathered so far written out before the run ends
FetchFailPartialSave ==
    /\ pc = "fetch"
    /\ fetchIdx <= Len(to_fetch)
    /\ ledgerFile' = [exists |-> TRUE,
                      rows |-> to_csv(sort_values(df \o all_rows))]
    /\ pc' = "crashed"
    /\ cause' = "fetch"
    /\ UNCHANGED <<envVars, runVars, normVars, exVars, scVars>>

\* one iteration of the draw loop whose page request fails:
\* raise_for_status raises and main ends with the traceback
FetchFail ==
    /\ pc = "fetch"
    /\ fetchIdx <= Len(to_fetch)
    /\ pc' = "crashed"
    /\ cause' = "fetch"
    /\ UNCHANGED <<envVars, ledgerFile, runVars, normVars, exVars, scVars>>

\* after the loop: concat, sort and rewrite the ledger file
Save ==
    /\ pc = "fetch"
    /\ fetchIdx > Len(to_fetch)
    /\ LET merged == IF all_rows # <<>> THEN df \o all_rows ELSE df
           sorted == sort_values(merged)
       IN  /\ df' = sorted
           /\ ledgerFile' = [exists |-> TRUE, rows |-> to_csv(sorted)]
    /\ saved' = TRUE
    /\ pc' = "match"
    /\ UNCHANGED <<envVars, cause, today, est, have, to_fetch, fetchIdx,
                   all_rows, dateFailed, geo, idx, alias, W, U, a3,
                   startLedger, rerun, normVars, exVars, scVars>>

\* the matching stage, over the registry and alias files found on disk
Match ==
    /\ pc = "match"
    /\ \E g \in GeoFiles, al \in AliasFiles :
         IF g.exists
         THEN LET index == build_index(g.rows)
                  aliases == load_aliases(al)
              IN  /\ geo' = g
                  /\ idx' = index
                  /\ alias' = aliases
                  /\ W' = MatchSplit(df, aliases, index, TRUE)
                  /\ U' = MatchSplit(df, aliases, index, FALSE)
                  /\ pc' = "a3"
         ELSE /\ pc' = "done"
              /\ UNCHANGED <<geo, idx, alias, W, U>>
    /\ UNCHANGED <<envVars, ledgerFile, cause, today, est, df, have,
                   to_fetch, fetchIdx, all_rows, dateFailed, saved, a3,
                   startLedger, rerun, normVars, exVars, scVars>>

\* the scoring stage: check_call of compute_a3_scores.py on wins.csv when W
\* is not empty and the script is there; check_call raises when it fails
A3 ==
    /\ pc = "a3"
    /\ \E scriptExists \in BOOLEAN :
         IF W # <<>> /\ scriptExists
         THEN LET result == ScorerMain(geo.rows, WinsCsv(W), clock)
              IN  IF result.ok
                  THEN /\ a3' = "wrote" /\ pc' = "done" /\ cause' = cause
                  ELSE /\ a3' = "failed" /\ pc' = "crashed"
                       /\ cause' = "a3"
         ELSE /\ a3' = "skipped" /\ pc' = "done" /\ cause' = cause
    /\ UNCHANGED <<envVars, ledgerFile, today, est, df, have, to_fetch,
                   fetchIdx, all_rows, dateFailed, saved, geo, idx, alias,
                   W, U, startLedger, rerun, normVars, exVars, scVars>>

Next == Start \/ FetchDraw \/ FetchFail \/ Save \/ Match \/ A3

Spec == PipeInit /\ [][Next]_vars

\* draw ids of the rows of a ledger file
LedgerDraws(file) == {file.rows[i].draw : i \in 1..Len(file.rows)}

\* number of positions of seq that hold v
Count(seq, v) == Cardinality({i \in 1..Len(seq) : seq[i] = v})

\* C1: a run never fetches a draw id the ledger already holds, and a run
\* right after a run that saved, on the same date and source, leaves the
\* ledger file exactly as the first run wrote it.
RerunLeavesLedgerIdentical ==
    /\ pc = "fetch" =>
         \A i \in 1..Len(to_fetch) : to_fetch[i] \notin LedgerDraws(startLedger)
    /\ (rerun /\ saved) => ledgerFile = startLedger

\* C2: no two rows of the ledger share
\* (draw id, rank, normalized name, normalized address).
LedgerKey(r) == <<r.draw, r.rank, norm(r.name), norm(r.address)>>

LedgerUniqueOnKey ==
    \A i, j \in 1..Len(ledgerFile.rows) :
        i # j => LedgerKey(ledgerFile.rows[i]) # LedgerKey(ledgerFile.rows[j])

\* C3: the fetch set is {d : min(have + {est}) <= d <= est, d not in have}
\* for a non-empty ledger and {est} for an empty one, with
\* est = base_draw + floor(days since base_date / 7).
FetchSetAsSpecified ==
    pc = "fetch" =>
        LET days == clock - Toordinal([y |-> 2025, m |-> 8, d |-> 9])
            e == 1184 + ((days - (days % 7)) \div 7)
            present == LedgerDraws(startLedger)
            fetchSet == {to_fetch[i] : i \in 1..Len(to_fetch)}
        IN  /\ Len(to_fetch) = Cardinality(fetchSet)
            /\ IF present = {}
               THEN fetchSet = {e}
               ELSE fetchSet =
                      {d \in SetMin(present \cup {e})..e : d \notin present}

\* a run over a ledger with a gap: 1185 is missing between 1184 and 1186
FetchSetWitness ==
    /\ pc = "fetch"
    /\ LedgerDraws(startLedger) = {1184, 1186}
    /\ to_fetch = <<1185>>

\* the matching stage of this run has run over the registry
Matched == geo.exists /\ pc \in {"a3", "done", "crashed"}

RowKey(row) == KeyOf(Str(row.name), Str(row.address))

FrameEvent(r) == <<r.draw, r.rank, r.name, r.address, r.draw_date>>

OutEvent(row) == <<row.draw_no, row.rank, row.name, row.address, row.date>>

\* C4: every ledger row is emitted exactly once, to exactly one of Matched
\* (W) or Unmatched (U); W holds the rows whose key is found,
\* and |W| + |U| = |Ledger|.
MatcherTotal ==
    Matched =>
        LET out == W \o U
            outEvents == [i \in 1..Len(out) |-> OutEvent(out[i])]
            inEvents == [i \in 1..Len(df) |-> FrameEvent(df[i])]
        IN  /\ Len(W) + Len(U) = Len(df)
            /\ \A i \in 1..Len(df) :
                 Count(outEvents, inEvents[i]) = Count(inEvents, inEvents[i])
            /\ \A i \in 1..Len(W) :
                 /\ W[i].store_id # <<>>
                 /\ RowKey(W[i]) \in (DOMAIN alias) \cup (DOMAIN idx)
            /\ \A i \in 1..Len(U) :
                 /\ U[i].store_id = <<>>
                 /\ RowKey(U[i]) \notin (DOMAIN alias) \cup (DOMAIN idx)

MatcherTotalWitness == Matched /\ W # <<>> /\ U # <<>>

\* the key of the row is in the alias table and in the index, with two ids
Contested(row) ==
    /\ RowKey(row) \in DOMAIN alias
    /\ RowKey(row) \in DOMAIN idx
    /\ alias[RowKey(row)] # idx[RowKey(row)]

\* C5: a row whose key is in both the alias table and the index with
\* different store ids gets the alias table's id; the index decides only
\* where the alias table has no entry.
AliasPrecedence ==
    Matched =>
        \A i \in 1..Len(W \o U) :
            LET row == (W \o U)[i]
            IN  /\ Contested(row) => row.store_id = alias[RowKey(row)]
                /\ RowKey(row) \notin DOMAIN alias
                     => row.store_id = Get(idx, RowKey(row))

AliasPrecedenceWitness ==
    Matched /\ \E i \in 1..Len(W) : Contested(W[i])

\* C6: where the date lookup of a fetched draw fails, its rows enter the
\* ledger with an empty date and the run, scoring stage included, does not
\* end fatally.
DateFailureNeverFatal ==
    dateFailed # {} =>
        /\ saved =>
             \A i \in 1..Len(ledgerFile.rows) :
                 ledgerFile.rows[i].draw \in dateFailed
                    => ledgerFile.rows[i].draw_date = <<>>
        /\ ~(pc = "crashed" /\ cause = "a3")

\* C10: a run whose page fetch fails leaves the ledger file as it found it,
\* rows of draws fetched earlier in the run included; the file is rewritten
\* only after every draw of the fetch set was fetched.
AllOrNothing ==
    /\ (pc = "crashed" /\ cause = "fetch") => ledgerFile = startLedger
    /\ pc = "fetch" => ledgerFile = startLedger
    /\ ledgerFile # startLedger => fetchIdx > Len(to_fetch)

\* a page fetch failed after rows of an earlier draw had been extracted
AllOrNothingWitness ==
    pc = "crashed" /\ cause = "fetch" /\ all_rows # <<>>

\* ======================================================== the scorer alone
\* the registry: store S1
ScFeatures ==
    << [name |-> <<"ga", "ge">>, address |-> <<"seo", "ul", "si">>,
        store_id |-> <<"S", "1">>] >>

\* --today 2025-01-01
ScToday == Toordinal([y |-> 2025, m |-> 1, d |-> 1])

\* rows of the events file: matched to S1 or not, dated 366 days back, one
\* day back, or without a date
ScEventRows ==
    [store_id : {<<"S", "1">>, <<>>},
     date : {<<"2", "0", "2", "4", "-", "0", "1", "-", "0", "1">>,
             <<"2", "0", "2", "4", "-", "1", "2", "-", "3", "1">>,
             <<>>},
     rank : {<<"1">>, <<"2">>}]

ScInit ==
    /\ scPc = "start"
    /\ scEvents \in SeqsUpTo(ScEventRows, MaxEvents)
    /\ scResult = <<>>
    /\ NormIdle /\ ExIdle /\ PipeIdle

ScoreRun ==
    /\ scPc = "start"
    /\ scResult' = ScorerMain(ScFeatures, scEvents, ScToday)
    /\ scPc' = "scored"
    /\ UNCHANGED <<scEvents, normVars, exVars, pipeVars>>

ScNext == ScoreRun

SpecScore == ScInit /\ [][ScNext]_vars

\* the events of store S1, and those of them with a parseable date
ScMine == SelectSeq(scEvents, LAMBDA r : Strip(r.store_id) = <<"S", "1">>)

ScDated == SelectSeq(ScMine, LAMBDA r : parse_date(r.date).ok)

\* C7: an event with an unparseable date still counts in win1 or win2 by
\* its rank, and is left out of the decayed score, of last_win_date and of
\* the recent12m counts.
UndatedEventsCounted ==
    scPc = "scored" =>
        /\ scResult.ok
        /\ LET row == scResult.summary[1]
               ranked(evs, k) == Len(SelectSeq(evs, LAMBDA r : r.rank = k))
           IN  /\ row.win1 = ranked(ScMine, <<"1">>)
               /\ row.win2 = ranked(ScMine, <<"2">>)
               /\ Len(row.a3_score) = Len(ScDated)
               /\ (ScDated = <<>>) = (row.last_win_date = <<>>)
               /\ row.recent12m_win1 <= ranked(ScDated, <<"1">>)
               /\ row.recent12m_win2 <= ranked(ScDated, <<"2">>)

====
